---- MODULE Spec2Model ----
(***************************************************************************)
(* Canvas sizing, layout and compositing of generate_text_image            *)
(* (src/text2image.py), with colorize_image and the measure conversion of  *)
(* src/t2i.py as specifications of their own at the end of the module.     *)
(*                                                                         *)
(* One behaviour is one call of generate_text_image.  The initial state is *)
(* the call after new_image_from_text has returned the cropped text image  *)
(* and its descent (line 242); the actions are the successive blocks of    *)
(* the function body, each a function from the local variables to the      *)
(* local variables.  Python's None is the empty tuple.  A float aspect     *)
(* ratio n/d is the pair <<n, d>> with d > 0: for the ratios and sizes of  *)
(* this model int(v*ratio) and int(v/ratio) in double precision equal the  *)
(* exact quotients computed by IntTimes and IntOver.  Python's // is floor *)
(* division, as is \div.                                                   *)
(***************************************************************************)
EXTENDS Integers, Sequences, FiniteSets, TLC

\* ------------------------------------------------------------------ bounds
MaxTextWidth == 2
MaxTextHeight == 3
MaxMinHeight == 4

\* ------------------------------------------------- input domains of a call
None == <<>>

Max(a, b) == IF a >= b THEN a ELSE b
Min(a, b) == IF a <= b THEN a ELSE b

\* int(bottom) of the text bounding box: the distance below the baseline.
Descents == {0, 2}

\* The text as new_image_from_text sees it: whether it holds a "\n", and the
\* bounding box Pillow measures for it.
Texts ==
    [newline : {FALSE}, width : 1..MaxTextWidth, height : 1..MaxTextHeight,
     bottom : Descents]
    \cup
    [newline : {TRUE}, width : 1..MaxTextWidth, height : 1..MaxTextHeight,
     bottom : {2}]

BaselineAlignment == {"none", "broad", "perfect"}

RGBColor == {<<100, 100, 100>>}

ShadowOffsets == {-1, 0, 1} \X {-1, 0, 1}

\* Offsets passed along with shadow_color = None.
UnusedShadowOffsets == {<<0, 0>>, <<-1, 1>>}

Paddings == {0, 1} \X {0, 1}

\* Values of the padding parameter other than None.
PaddingOverrides == {<<1, 0>>, <<0, 1>>}

\* Aspect ratios of a call: None, the library default -1.0, and n/d.
AspectRatios == {None, <<-1, 1>>, <<3, 4>>, <<3, 2>>}

MinSizes == {None} \cup ({0, 2} \X (0..MaxMinHeight))

\* background_color: None (transparent) or an RGB triple.
BackgroundColors == {None, <<19, 34, 50>>}

\* shadow_blur: the floats -1.0, 0.0 (the default) and 2.0.
ShadowBlurs == {-1, 0, 2}

\* The keyword arguments of generate_text_image that the layout and the
\* compositing read.
Arguments(colors, offsets, padxs, padys, paddings, ratios, sizes, fills, blurs) ==
    [ text             : Texts,
      baseline_align   : BaselineAlignment,
      shadow_color     : colors,
      shadow_offset    : offsets,
      padx             : padxs,
      pady             : padys,
      padding          : paddings,
      aspect_ratio     : ratios,
      min_size         : sizes,
      background_color : fills,
      shadow_blur      : blurs ]

\* ---------------------------------------------------------------- variables
VARIABLES
    args,       \* the arguments of the call (never changed)
    locals,     \* the local variables of generate_text_image
    pc          \* the block of the function body that runs next

vars == <<args, locals, pc>>

\* ------------------------------------------------------- float arithmetic
\* int(v * ratio) for v >= 0 and ratio = n/d > 0.
IntTimes(v, ratio) == (v * ratio[1]) \div ratio[2]

\* int(v / ratio) for v >= 0 and ratio = n/d > 0.
IntOver(v, ratio) == (v * ratio[2]) \div ratio[1]

\* aspect_ratio is not None and aspect_ratio > 0.0
IsPositiveRatio(ratio) == ratio # None /\ ratio[1] > 0

\* ------------------------------------------------- the blocks of the body
\* The locals once new_image_from_text has returned (lines 234-242); x, y,
\* width, height and is_multiline are not assigned yet.
entry(a) ==
    [ text_image    |-> [width |-> a.text.width, height |-> a.text.height],
      text_descent  |-> a.text.bottom,
      is_multiline  |-> FALSE,
      shadow        |-> None,
      shadow_offset |-> a.shadow_offset,
      padx          |-> a.padx,
      pady          |-> a.pady,
      aspect_ratio  |-> a.aspect_ratio,
      x             |-> 0,
      y             |-> 0,
      width         |-> 0,
      height        |-> 0,
      fit_branch    |-> {},
      background_color |-> a.background_color,
      image         |-> None,
      image_size    |-> None,
      shadow_dest   |-> None,
      text_dest     |-> None ]

\* Mutant: the offset passed without a shadow is kept.
no_shadow_offset_kept(a, s) == s.shadow_offset

\* Lines 266-268: without a shadow the offset is set to (0,0).
no_shadow_offset(a, s) == <<0, 0>>

\* Lines 244-277: descent of multi-line text, the shadow image, the padding
\* override and the base placement.
base_placement(a, s) ==
    LET is_multiline == a.text.newline
        new_padx == IF a.padding # None
                      THEN <<a.padding[1], a.padding[1]>> ELSE s.padx
        new_pady == IF a.padding # None
                      THEN <<a.padding[2], a.padding[2]>> ELSE s.pady
    IN [s EXCEPT
          !.is_multiline = is_multiline,
          !.text_descent = IF is_multiline THEN 0 ELSE s.text_descent,
          !.shadow = IF a.shadow_color # None THEN s.text_image ELSE None,
          !.shadow_offset = IF a.shadow_color # None
                              THEN s.shadow_offset ELSE no_shadow_offset(a, s),
          !.padx = new_padx,
          !.pady = new_pady,
          !.x = new_padx[1],
          !.y = new_pady[1],
          !.width = s.text_image.width + new_padx[1] + new_padx[2],
          !.height = s.text_image.height + new_pady[1] + new_pady[2]]

\* Lines 278-289.
shadow_extension(s) ==
    IF s.shadow # None
      THEN LET dx == s.shadow_offset[1]
               dy == s.shadow_offset[2]
           IN [s EXCEPT
                 !.x = IF dx >= 0 THEN s.x ELSE s.x - dx,
                 !.width = IF dx >= 0 THEN s.width + dx ELSE s.width - dx,
                 !.y = IF dy >= 0 THEN s.y ELSE s.y - dy,
                 !.height = IF dy >= 0 THEN s.height + dy ELSE s.height - dy]
      ELSE s

\* Mutant: an aspect ratio <= 0 falls back to that of min_size as None does.
fallback_aspect_ratio_unset(s, min_width, min_height) ==
    IF (s.aspect_ratio = None \/ s.aspect_ratio[1] <= 0) /\ min_height # 0
      THEN <<min_width, min_height>>
      ELSE s.aspect_ratio

\* Lines 299-300: the aspect ratio falls back to that of min_size.
fallback_aspect_ratio(s, min_width, min_height) ==
    IF s.aspect_ratio = None /\ min_height # 0
      THEN <<min_width, min_height>>
      ELSE s.aspect_ratio

\* Mutant: lines 299-300 are indented under the if of line 296.
falls_back_when_grown(grow_w, grow_h) == grow_h

\* Line 299 is at the indentation of lines 293 and 296: the fallback runs
\* whether or not a dimension grew.
falls_back(grow_w, grow_h) == TRUE

\* Lines 292-300 with the outcomes of the comparisons of lines 293 and 296.
grow_to_min_size(s, min_width, min_height, grow_w, grow_h) ==
    [s EXCEPT
       !.x = IF grow_w THEN s.x + (min_width - s.width) \div 2 ELSE s.x,
       !.width = IF grow_w THEN min_width ELSE s.width,
       !.y = IF grow_h THEN s.y + (min_height - s.height) \div 2 ELSE s.y,
       !.height = IF grow_h THEN min_height ELSE s.height,
       !.aspect_ratio = IF falls_back(grow_w, grow_h)
                          THEN fallback_aspect_ratio(s, min_width, min_height)
                          ELSE s.aspect_ratio]

\* Lines 291-300.
minimum_size(a, s) ==
    IF a.min_size # None
      THEN LET min_width == a.min_size[1]
               min_height == a.min_size[2]
               grow_w == s.width < min_width
               grow_h == s.height <= min_height
           IN grow_to_min_size(s, min_width, min_height, grow_w, grow_h)
      ELSE s

\* Lines 303-304.
desired_width(s) == Max(IntTimes(s.height, s.aspect_ratio), s.width)
desired_height(s) == Max(IntOver(s.width, s.aspect_ratio), s.height)

\* Mutant: the new height is computed from the width before the fitting.
new_height_of_old_width(s) == IntOver(s.width, s.aspect_ratio)

\* Line 310.
new_height(s) == IntOver(desired_width(s), s.aspect_ratio)

\* Line 318.
new_width(s) == IntTimes(desired_height(s), s.aspect_ratio)

\* Mutant: the centring term of line 311 is truncated towards zero, as
\* int((new_height - height) / 2) is.
fit_width_first_truncating(s) ==
    LET delta == new_height(s) - s.height
    IN [s EXCEPT
          !.x = s.x + (desired_width(s) - s.width) \div 2,
          !.width = desired_width(s),
          !.y = s.y + (IF delta >= 0 THEN delta \div 2 ELSE -((-delta) \div 2)),
          !.height = new_height(s),
          !.fit_branch = s.fit_branch \cup {"width"}]

\* Lines 306-312: the branch taken when desired_width > desired_height.
fit_width_first(s) ==
    [s EXCEPT
       !.x = s.x + (desired_width(s) - s.width) \div 2,
       !.width = desired_width(s),
       !.y = s.y + (new_height(s) - s.height) \div 2,
       !.height = new_height(s),
       !.fit_branch = s.fit_branch \cup {"width"}]

\* Lines 314-320: the else branch.
fit_height_first(s) ==
    [s EXCEPT
       !.y = s.y + (desired_height(s) - s.height) \div 2,
       !.height = desired_height(s),
       !.x = s.x + (new_width(s) - s.width) \div 2,
       !.width = new_width(s),
       !.fit_branch = s.fit_branch \cup {"height"}]

\* Lines 302-320.
aspect_fit(s) ==
    IF IsPositiveRatio(s.aspect_ratio)
      THEN IF desired_width(s) > desired_height(s)
             THEN fit_width_first(s)
             ELSE fit_height_first(s)
      ELSE s

\* Mutant: perfect subtracts the whole height of the text, not half of it.
baseline_offset_whole_height(a, s) ==
    CASE a.baseline_align = "broad" -> s.text_descent \div 2
      [] a.baseline_align = "perfect" -> s.text_descent - s.text_image.height
      [] OTHER -> 0

\* Lines 326-332.
baseline_offset(a, s) ==
    CASE a.baseline_align = "broad" -> s.text_descent \div 2
      [] a.baseline_align = "perfect" ->
             s.text_descent - s.text_image.height \div 2
      [] OTHER -> 0

\* Lines 341-342.
lower_bounds(s) == s.pady[1] - Min(0, s.shadow_offset[2])
upper_bounds(s) ==
    s.height - (s.pady[2] + s.text_image.height + Max(0, s.shadow_offset[2]))

\* Mutant: the alignment block is entered for multi-line text too.
aligns_baseline_always(a, s) == TRUE

\* Line 325: the alignment block is entered for single-line text only.
aligns_baseline(a, s) == ~s.is_multiline

\* Lines 325-346.
baseline_alignment(a, s) ==
    IF aligns_baseline(a, s) /\ a.baseline_align # "none"
      THEN LET new_y == s.y + baseline_offset(a, s)
           IN [s EXCEPT !.y = Min(Max(new_y, lower_bounds(s)), upper_bounds(s))]
      ELSE s

\* Lines 234-320 as one function of the arguments: the locals on reaching
\* the baseline alignment.
sized(a) ==
    aspect_fit(minimum_size(a, shadow_extension(base_placement(a, entry(a)))))

\* Lines 234-346 as one function of the arguments.
layout(a) == baseline_alignment(a, sized(a))

\* ------------------------------------------------------------ compositing
\* The canvas is modelled by the calls made on it: image is the sequence of
\* their names, image_size, shadow_dest and text_dest are their arguments.

\* Lines 348-354: the background colour gets its alpha and the canvas is
\* created with the size the layout computed.
new_image(s) ==
    [s EXCEPT
       !.background_color = IF s.background_color = None
                              THEN <<0, 0, 0, 0>>
                              ELSE s.background_color \o <<255>>,
       !.image = <<"new">>,
       !.image_size = <<s.width, s.height>>]

\* Mutant: the shadow is composited at the origin of the text.
shadow_position_of_text(s) == <<s.x, s.y>>

\* Line 357: the destination of the shadow layer.
shadow_position(s) == <<s.x + s.shadow_offset[1], s.y + s.shadow_offset[2]>>

\* Lines 356-357.
composite_shadow(s) ==
    [s EXCEPT
       !.image = Append(s.image, "alpha_composite(shadow)"),
       !.shadow_dest = shadow_position(s)]

\* Mutant: a blur of 0.0 is disabled, as the comment of the parameter says.
blurs_shadow_above_zero(a) == a.shadow_blur > 0

\* Line 358: shadow_blur >= 0.0.
blurs_shadow(a) == a.shadow_blur >= 0

\* Line 359: the whole canvas is replaced by its blurred copy.
box_blur(s) == [s EXCEPT !.image = Append(s.image, "filter(BoxBlur)")]

\* Line 361.
composite_text(s) ==
    [s EXCEPT
       !.image = Append(s.image, "alpha_composite(text_image)"),
       !.text_dest = <<s.x, s.y>>]

\* ------------------------------------------------------------------- Init
\* Calls that exercise the layout: every aspect ratio and min_size, the
\* default background and blur.
LayoutArguments(colors, offsets, padxs, padys, paddings) ==
    Arguments(colors, offsets, padxs, padys, paddings, AspectRatios, MinSizes,
              {None}, {0})

LayoutCalls ==
    LayoutArguments(RGBColor, ShadowOffsets, Paddings, Paddings, {None})
      \cup LayoutArguments({None}, UnusedShadowOffsets, Paddings, Paddings, {None})
      \cup LayoutArguments(RGBColor, ShadowOffsets, {<<0, 0>>}, {<<0, 0>>},
                           PaddingOverrides)

Init ==
    /\ args \in LayoutCalls
    /\ locals = entry(args)
    /\ pc = "prepare"

\* ---------------------------------------------------------------- actions
BasePlacement ==
    /\ pc = "prepare"
    /\ locals' = base_placement(args, locals)
    /\ pc' = "shadow"
    /\ UNCHANGED args

ShadowExtension ==
    /\ pc = "shadow"
    /\ locals' = shadow_extension(locals)
    /\ pc' = "min_size"
    /\ UNCHANGED args

MinimumSize ==
    /\ pc = "min_size"
    /\ locals' = minimum_size(args, locals)
    /\ pc' = "aspect"
    /\ UNCHANGED args

FitWidthFirst ==
    /\ pc = "aspect"
    /\ IsPositiveRatio(locals.aspect_ratio)
    /\ desired_width(locals) > desired_height(locals)
    /\ locals' = fit_width_first(locals)
    /\ pc' = "baseline"
    /\ UNCHANGED args

FitHeightFirst ==
    /\ pc = "aspect"
    /\ IsPositiveRatio(locals.aspect_ratio)
    /\ ~(desired_width(locals) > desired_height(locals))
    /\ locals' = fit_height_first(locals)
    /\ pc' = "baseline"
    /\ UNCHANGED args

\* Line 302 with a false condition: the fitting is skipped.
NoFit ==
    /\ pc = "aspect"
    /\ ~IsPositiveRatio(locals.aspect_ratio)
    /\ pc' = "baseline"
    /\ UNCHANGED <<args, locals>>

BaselineAlign ==
    /\ pc = "baseline"
    /\ locals' = baseline_alignment(args, locals)
    /\ pc' = "done"
    /\ UNCHANGED args

Next ==
    \/ BasePlacement
    \/ ShadowExtension
    \/ MinimumSize
    \/ FitWidthFirst
    \/ FitHeightFirst
    \/ NoFit
    \/ BaselineAlign

Spec == Init /\ [][Next]_vars

\* ------------------------------------------ the call up to its return value
\* Calls that exercise the compositing: every background and blur, with and
\* without a shadow, an aspect ratio and a min_size.
CompositeRatios == {None, <<-1, 1>>, <<3, 2>>}
CompositeSizes == {None, <<2, MaxMinHeight>>}

CompositeArguments(colors, offsets) ==
    Arguments(colors, offsets, Paddings, Paddings, {None}, CompositeRatios,
              CompositeSizes, BackgroundColors, ShadowBlurs)

InitComposite ==
    /\ args \in CompositeArguments(RGBColor, ShadowOffsets)
                \cup CompositeArguments({None}, UnusedShadowOffsets)
    /\ locals = entry(args)
    /\ pc = "prepare"

NewImage ==
    /\ pc = "done"
    /\ locals' = new_image(locals)
    /\ pc' = "shadow_layer"
    /\ UNCHANGED args

CompositeShadow ==
    /\ pc = "shadow_layer"
    /\ locals.shadow # None
    /\ locals' = composite_shadow(locals)
    /\ pc' = "blur"
    /\ UNCHANGED args

\* Line 356 with a false condition.
NoShadow ==
    /\ pc = "shadow_layer"
    /\ locals.shadow = None
    /\ pc' = "text_layer"
    /\ UNCHANGED <<args, locals>>

BoxBlur ==
    /\ pc = "blur"
    /\ blurs_shadow(args)
    /\ locals' = box_blur(locals)
    /\ pc' = "text_layer"
    /\ UNCHANGED args

\* Line 358 with a false condition.
NoBlur ==
    /\ pc = "blur"
    /\ ~blurs_shadow(args)
    /\ pc' = "text_layer"
    /\ UNCHANGED <<args, locals>>

CompositeText ==
    /\ pc = "text_layer"
    /\ locals' = composite_text(locals)
    /\ pc' = "returned"
    /\ UNCHANGED args

NextComposite ==
    \/ BasePlacement
    \/ ShadowExtension
    \/ MinimumSize
    \/ FitWidthFirst
    \/ FitHeightFirst
    \/ NoFit
    \/ BaselineAlign
    \/ NewImage
    \/ CompositeShadow
    \/ NoShadow
    \/ BoxBlur
    \/ NoBlur
    \/ CompositeText

SpecComposite == InitComposite /\ [][NextComposite]_vars

\* ------------------------------------------------------ names for claims
\* The layout is final: the function has reached line 348.
LayoutDone == pc = "done"

\* The padding in effect: the padding parameter, when given, replaces padx
\* and pady.
padLeft == IF args.padding # None THEN args.padding[1] ELSE args.padx[1]
padRight == IF args.padding # None THEN args.padding[1] ELSE args.padx[2]
padTop == IF args.padding # None THEN args.padding[2] ELSE args.pady[1]
padBottom == IF args.padding # None THEN args.padding[2] ELSE args.pady[2]

\* The shadow offset in effect: (0,0) without a shadow.
shadowDx == IF args.shadow_color # None THEN args.shadow_offset[1] ELSE 0
shadowDy == IF args.shadow_color # None THEN args.shadow_offset[2] ELSE 0

\* The clamp interval of the text's y origin for a canvas of height h.
lowerBound == padTop - Min(0, shadowDy)
upperBound(h) == h - (padBottom + args.text.height + Max(0, shadowDy))

IsSingleLine == ~args.text.newline

HasShadow == args.shadow_color # None
HasMinSize == args.min_size # None
HasAspectRatio == IsPositiveRatio(args.aspect_ratio)

\* The canvas has the ratio within integer rounding: one dimension is the
\* truncated image of the other.
MatchesRatio(ratio) ==
    \/ locals.width = IntTimes(locals.height, ratio)
    \/ (ratio[1] > 0 /\ locals.height = IntOver(locals.width, ratio))

\* ------------------------------------------------------------------- C1
\* C1: for every input the final canvas is at least as wide as the text plus
\* the left and right padding, and at least as high as the text plus the top
\* and bottom padding.
C1_CanvasHoldsTextAndPadding ==
    LayoutDone =>
        /\ locals.width >= args.text.width + padLeft + padRight
        /\ locals.height >= args.text.height + padTop + padBottom

\* ------------------------------------------------------------------- C2
\* C2: for every input the origin of the text layer (x, y) and the origin of
\* the shadow layer (x + dx, y + dy) are non-negative in the final layout.
C2_OriginsNonNegative ==
    LayoutDone =>
        /\ locals.x >= 0
        /\ locals.y >= 0
        /\ locals.x + locals.shadow_offset[1] >= 0
        /\ locals.y + locals.shadow_offset[2] >= 0

\* ------------------------------------------------------------------- C3
\* C3: without a shadow, an aspect ratio (None or <= 0) and a min_size, the
\* canvas is exactly the text plus the padding and the text origin is exactly
\* (padLeft, padTop), whatever the baseline mode and the number of lines.
C3_PlainLayoutExact ==
    (LayoutDone /\ ~HasShadow /\ ~HasAspectRatio /\ ~HasMinSize) =>
        /\ locals.width = args.text.width + padLeft + padRight
        /\ locals.height = args.text.height + padTop + padBottom
        /\ locals.x = padLeft
        /\ locals.y = padTop

\* A single-line text with a descent, baseline mode perfect, an offset
\* passed without a shadow and unequal paddings has been laid out.
C3_Witness ==
    /\ LayoutDone /\ ~HasShadow /\ ~HasAspectRatio /\ ~HasMinSize
    /\ ~args.text.newline
    /\ args.text.bottom = 2
    /\ args.baseline_align = "perfect"
    /\ args.shadow_offset = <<-1, 1>>
    /\ padTop = 1 /\ padBottom = 0 /\ padLeft = 0 /\ padRight = 1

\* ------------------------------------------------------------------- C4
\* C4: whenever the aspect-ratio fitting runs, exactly one of its two
\* branches executes, and the width and the height after it are at least
\* their values before it.
C4_FitNeverShrinks ==
    [][(pc = "aspect" /\ IsPositiveRatio(locals.aspect_ratio)) =>
          /\ Cardinality(locals'.fit_branch) = 1
          /\ locals'.width >= locals.width
          /\ locals'.height >= locals.height]_vars

\* ------------------------------------------------------------------- C5
\* C5: with a positive aspect ratio and neither a shadow nor a min_size, the
\* final canvas has the ratio within integer rounding: height is the
\* truncation of width / ratio, or width the truncation of height * ratio.
C5_CanvasMatchesRatio ==
    (LayoutDone /\ HasAspectRatio /\ ~HasShadow /\ ~HasMinSize) =>
        MatchesRatio(args.aspect_ratio)

\* The fitting has widened a canvas that was narrower than the ratio asks.
C5_Witness ==
    /\ LayoutDone /\ HasAspectRatio /\ ~HasShadow /\ ~HasMinSize
    /\ locals.fit_branch = {"width"}
    /\ locals.width > args.text.width + padLeft + padRight
    /\ args.aspect_ratio = <<3, 2>>

\* ------------------------------------------------------------------- C6
\* C6: with min_size = (minWidth, minHeight) the final canvas is at least
\* minWidth wide and minHeight high.
C6_CanvasAtLeastMinSize ==
    (LayoutDone /\ HasMinSize) =>
        /\ locals.width >= args.min_size[1]
        /\ locals.height >= args.min_size[2]

\* ------------------------------------------------------------------- C7
\* The aspect_ratio argument counts as unset: None, or a value <= 0.
IsUnsetRatio(ratio) == ratio = None \/ ratio[1] <= 0

\* C7 as claimed: with a min_size of non-zero height and an aspect ratio that
\* is None or <= 0, the fitting uses minWidth / minHeight and the final
\* canvas has that ratio within integer rounding.
C7_UnsetRatioFallsBackToMinSize ==
    (LayoutDone /\ HasMinSize /\ args.min_size[2] # 0
       /\ IsUnsetRatio(args.aspect_ratio)) =>
        /\ locals.aspect_ratio = args.min_size
        /\ args.min_size[1] > 0 => MatchesRatio(args.min_size)

\* C7 as amended: with a min_size of non-zero height, an aspect ratio of None
\* is replaced by minWidth / minHeight: when minWidth > 0 the fitting runs
\* with it and the final canvas has that ratio within integer rounding, when
\* minWidth = 0 no fitting runs.  An aspect ratio <= 0 that is not None (such
\* as the default -1.0) is kept and no fitting runs.
C7_NoneRatioFallsBackToMinSize ==
    (LayoutDone /\ HasMinSize /\ args.min_size[2] # 0) =>
        /\ args.aspect_ratio = None =>
              /\ locals.aspect_ratio = args.min_size
              /\ args.min_size[1] > 0 =>
                    (locals.fit_branch # {} /\ MatchesRatio(args.min_size))
              /\ args.min_size[1] = 0 => locals.fit_branch = {}
        /\ (args.aspect_ratio # None /\ args.aspect_ratio[1] <= 0) =>
              /\ locals.aspect_ratio = args.aspect_ratio
              /\ locals.fit_branch = {}

\* An aspect ratio of None was replaced by that of min_size = (2, 3) and the
\* fitting has widened a canvas of height 6 from 2 to 4.
C7_Witness ==
    /\ LayoutDone
    /\ args.aspect_ratio = None
    /\ args.min_size = <<2, 3>>
    /\ args.text.width = 1 /\ padLeft + padRight + shadowDx <= 1
    /\ locals.aspect_ratio = <<2, 3>>
    /\ locals.fit_branch # {}
    /\ locals.height = 6
    /\ locals.width = 4

\* ------------------------------------------------------------------- C8
\* The result of a layout: canvas size, text origin and shadow origin.
LayoutResult(s) ==
    [ canvasWidth  |-> s.width,
      canvasHeight |-> s.height,
      textOrigin   |-> <<s.x, s.y>>,
      shadowOrigin |-> <<s.x + s.shadow_offset[1], s.y + s.shadow_offset[2]>> ]

\* C8: for a text holding a newline the canvas size, the text origin and the
\* shadow origin of the call are those of the same call made with any other
\* baseline_align.
C8_MultilineIgnoresBaseline ==
    (LayoutDone /\ args.text.newline) =>
        \A b \in BaselineAlignment :
            LayoutResult(layout([args EXCEPT !.baseline_align = b]))
                = LayoutResult(locals)

\* A multi-line text was laid out with baseline_align perfect on a canvas
\* with room around the text, where the same text on one line is moved.
C8_Witness ==
    /\ LayoutDone
    /\ args.text.newline
    /\ args.baseline_align = "perfect"
    /\ locals.y > lowerBound
    /\ locals.y < upperBound(locals.height)
    /\ layout([args EXCEPT !.text.newline = FALSE]).y # locals.y

\* ------------------------------------------------------------------- C9
\* C9: for single-line text aligned broad or perfect the final y lies in
\* [lowerBound, upperBound], and is lowerBound or upperBound when the
\* unclamped y + baselineOffset lies outside.
C9_AlignedYWithinBounds ==
    [][(pc = "baseline" /\ IsSingleLine /\ args.baseline_align # "none") =>
          LET lo == lowerBound
              hi == upperBound(locals'.height)
              unclamped == locals.y + baseline_offset(args, locals)
          IN /\ lo <= locals'.y
             /\ locals'.y <= hi
             /\ (unclamped < lo \/ unclamped > hi) => locals'.y \in {lo, hi}]_vars

\* ------------------------------------------------------------------ C10
\* The text row of the baseline is at half the canvas height within 1 pixel.
BaselineCentred(s) ==
    LET row == s.y + args.text.height - args.text.bottom
    IN 2 * row - s.height \in -2..2

\* No clamping occurs in the alignment of the locals s.
Unclamped(s) ==
    LET new_y == s.y + baseline_offset(args, s)
    IN lowerBound <= new_y /\ new_y <= upperBound(s.height)

Returned == pc = "returned"

Abs(v) == IF v >= 0 THEN v ELSE -v

\* C11: with a shadow of offset (dx, dy) of any sign and neither a min_size
\* nor an aspect ratio, the canvas is the text plus the padding plus |dx| in
\* width and |dy| in height, the text is composited at
\* (padLeft + max(0, -dx), padTop + max(0, -dy)) and the shadow at the text
\* origin plus (dx, dy).
C11_ShadowExtendsCanvasExactly ==
    (Returned /\ HasShadow /\ ~HasMinSize /\ ~HasAspectRatio) =>
        /\ locals.image_size =
               << args.text.width + padLeft + padRight + Abs(shadowDx),
                  args.text.height + padTop + padBottom + Abs(shadowDy) >>
        /\ locals.text_dest =
               << padLeft + Max(0, -shadowDx), padTop + Max(0, -shadowDy) >>
        /\ locals.shadow_dest =
               << locals.text_dest[1] + shadowDx, locals.text_dest[2] + shadowDy >>

\* A call with a shadow offset to the left and downwards, padding on the left
\* and a single-line text aligned perfect has returned.
C11_Witness ==
    /\ Returned /\ HasShadow /\ ~HasMinSize /\ ~HasAspectRatio
    /\ args.shadow_offset = <<-1, 1>>
    /\ padLeft = 1 /\ padTop = 0
    /\ IsSingleLine /\ args.baseline_align = "perfect"
    /\ locals.text_dest = <<2, 0>>
    /\ locals.shadow_dest = <<1, 1>>

\* ------------------------------------------------------------------ C12
\* The calls on the canvas, in the order the claim names them.
BackgroundCreated == <<"new">>
ShadowComposited == <<"alpha_composite(shadow)">>
Blurred == <<"filter(BoxBlur)">>
TextComposited == <<"alpha_composite(text_image)">>

Channels == {0, 119, 255}
Alphas == {0, 255}
Pixels == Channels \X Channels \X Channels \X Alphas

ShadowColors == {<<100, 100, 100>>, <<45, 100, 255>>}

\* The pairs (colour channel, r+g+b) of this model for which the product
\* color * ((r+g+b)/255.0), computed in double precision, lies just below
\* the integer color*(r+g+b)/255, so that int() yields one less:
\* 45 * (357/255.0) = 62.99999999999999.
TruncatedBelow == {<<45, 357>>}

\* Lines 96 and 98-100: int(color[k] * average_color) with
\* average_color = sum/255.0.
scaled(channel, sum) ==
    IF <<channel, sum>> \in TruncatedBelow
      THEN (channel * sum) \div 255 - 1
      ELSE (channel * sum) \div 255

\* Lines 95-102: the tuple written for one pixel.
colorize_pixel(pixel, color) ==
    LET sum == pixel[1] + pixel[2] + pixel[3]
    IN << scaled(color[1], sum), scaled(color[2], sum), scaled(color[3], sum),
          pixel[4] >>

InitColorize ==
    /\ args \in [image : Pixels \X Pixels, color : ShadowColors]
    /\ locals = [image_pixels |-> args.image, i |-> 1]
    /\ pc = "colorize"

\* One iteration of the loops of lines 93-94.
ColorizePixel ==
    /\ pc = "colorize"
    /\ locals.i <= Len(args.image)
    /\ locals' = [image_pixels |->
                     [locals.image_pixels EXCEPT
                        ![locals.i] = colorize_pixel(@, args.color)],
                  i |-> locals.i + 1]
    /\ UNCHANGED <<args, pc>>

\* Line 103.
ColorizeReturn ==
    /\ pc = "colorize"
    /\ locals.i > Len(args.image)
    /\ pc' = "colorized"
    /\ UNCHANGED <<args, locals>>

NextColorize ==
    \/ ColorizePixel
    \/ ColorizeReturn

SpecColorize == InitColorize /\ [][NextColorize]_vars

\* ------------------------------------------------------------------ C13
\* The value v is color * sum / 255 clamped to [0, 255], rounded to an
\* integer in any direction.
IsClampedProduct(v, channel, sum) ==
    LET clamped255 == Min(channel * sum, 255 * 255)
    IN v \in 0..255 /\ 255 * v - clamped255 \in -254..254

\* C13: for every source pixel (r, g, b, a) and every shadow colour,
\* colorize_image writes each colour channel as shadowChannel * (r+g+b) / 255
\* clamped to [0, 255] and leaves the alpha unchanged.
C13_ColorizeClampsProduct ==
    pc = "colorized" =>
        \A k \in DOMAIN args.image :
            LET source == args.image[k]
                written == locals.image_pixels[k]
                sum == source[1] + source[2] + source[3]
            IN /\ \A c \in 1..3 :
                      IsClampedProduct(written[c], args.color[c], sum)
               /\ written[4] = source[4]

\* ============================================ measure_type (t2i.py 28-41)
\* One behaviour is one call of measure_type on the string made of an
\* integer and a suffix: args holds the two parts of the string, locals the
\* value any_measure_type returned.
MaxPoints == 40

MeasureSuffixes == {"", "px", "pt"}

Measures == [value : (-2)..MaxPoints, suffix : MeasureSuffixes]

\* text2image.py line 42.
px(x) == x

\* Mutant: the product is rounded to the nearest integer.
pt_rounded(x) == (x * 96 + 36) \div 72

\* text2image.py line 43: int(x * (96.0/72.0)), which truncates towards
\* zero; in double precision the product truncates to the exact quotient.
pt(x) == IF x >= 0 THEN (x * 96) \div 72 ELSE -(((-x) * 96) \div 72)

\* t2i.py lines 28-35.
any_measure_type(measure) ==
    CASE measure.suffix = "px" -> px(measure.value)
      [] measure.suffix = "pt" -> pt(measure.value)
      [] OTHER -> measure.value

InitMeasure ==
    /\ args \in Measures
    /\ locals = None
    /\ pc = "any_measure_type"

\* t2i.py line 38.
AnyMeasureType ==
    /\ pc = "any_measure_type"
    /\ locals' = any_measure_type(args)
    /\ pc' = "measure_type"
    /\ UNCHANGED args

\* t2i.py lines 39-40.
MeasureRaise ==
    /\ pc = "measure_type"
    /\ locals < 0
    /\ pc' = "ValueError"
    /\ UNCHANGED <<args, locals>>

\* t2i.py line 41.
MeasureReturn ==
    /\ pc = "measure_type"
    /\ ~(locals < 0)
    /\ pc' = "measured"
    /\ UNCHANGED <<args, locals>>

NextMeasure ==
    \/ AnyMeasureType
    \/ MeasureRaise
    \/ MeasureReturn

SpecMeasure == InitMeasure /\ [][NextMeasure]_vars

\* ------------------------------------------------------------------ C14
\* A measure in points was converted and accepted.
PointsMeasured == pc = "measured" /\ args.suffix = "pt"

\* C14 as claimed: for every non-negative integer p the conversion of 'Npt'
\* yields p * 96 / 72 rounded to the nearest integer, the integer n with
\* |3n - 4p| <= 1.
C14_PointsRounded ==
    PointsMeasured => 3 * locals - 4 * args.value \in -1..1

\* C14 as amended: for every non-negative integer p the conversion yields
\* p * 96 / 72 truncated to an integer, the integer n with
\* 3n <= 4p < 3n + 3.
C14_PointsTruncated ==
    PointsMeasured => 4 * args.value - 3 * locals \in 0..2

\* 2pt was converted to 2 pixels, where rounding gives 3.
C14_Witness ==
    PointsMeasured /\ args.value = 2 /\ locals = 2

\* ------------------------------------------------------------------ C15
\* Lines 291-300 with the comparison of line 296 written height < min_height.
minimum_size_strict(a, s) ==
    IF a.min_size # None
      THEN LET min_width == a.min_size[1]
               min_height == a.min_size[2]
               grow_w == s.width < min_width
               grow_h == s.height < min_height
           IN grow_to_min_size(s, min_width, min_height, grow_w, grow_h)
      ELSE s

\* The layout of lines 234-346 with that comparison.
layout_strict(a) ==
    baseline_alignment(a,
        aspect_fit(minimum_size_strict(a,
            shadow_extension(base_placement(a, entry(a))))))

\* The height of the canvas on reaching line 291.
PreGrowthHeight(a) == shadow_extension(base_placement(a, entry(a))).height

\* The call a has a min_size whose height is the height before the growth.
AtHeightBoundary(a) ==
    a.min_size # None /\ PreGrowthHeight(a) = a.min_size[2]

\* C15 as claimed: there is a call with pre-growth height = minHeight whose
\* layout result (canvas size or text origin) computed with
\* height <= minHeight differs from the one computed with
\* height < minHeight.
C15_AsymmetryObservable ==
    args \in LayoutCalls =>
        \E a \in LayoutCalls :
            /\ AtHeightBoundary(a)
            /\ LayoutResult(layout(a)) # LayoutResult(layout_strict(a))

\* C15 as amended: the comparison is not observable: the layout of every
\* call is the one computed with height < minHeight; at the boundary
\* height = minHeight the growth adds (0) // 2 = 0 to y and assigns to the
\* height the value it has.
C15_AsymmetryUnobservable ==
    LayoutDone =>
        /\ locals = layout_strict(args)
        /\ LayoutResult(locals) = LayoutResult(layout_strict(args))

\* A call at the boundary height = minHeight has been laid out, with the
\* aspect ratio of min_size fitted and the canvas widened by it.
C15_Witness ==
    /\ LayoutDone /\ AtHeightBoundary(args)
    /\ args.aspect_ratio = None /\ args.min_size[1] > 0
    /\ locals.fit_branch # {}
    /\ locals.width > args.min_size[1]

\* ------------------------------------------------------------------ C16
\* C16: for every input neither the text layer nor the shadow layer extends
\* past the right or the bottom edge of the canvas inset by the padding:
\* x + max(0, dx) + textWidth + padRight <= canvasWidth and
\* y + max(0, dy) + textHeight + padBottom <= canvasHeight.
C16_LayersWithinRightAndBottom ==
    LayoutDone =>
        /\ locals.x + Max(0, shadowDx) + args.text.width + padRight
               <= locals.width
        /\ locals.y + Max(0, shadowDy) + args.text.height + padBottom
               <= locals.height

\* The aspect fitting lowered the height of a canvas that holds a shadow
\* offset downwards and a bottom padding, and moved the text up by the
\* negative centring term; the text was not aligned afterwards.
C16_Witness ==
    /\ LayoutDone /\ HasShadow /\ shadowDy = 1 /\ padBottom = 1
    /\ args.baseline_align = "none"
    /\ "width" \in locals.fit_branch
    /\ locals.height < minimum_size(args,
                            shadow_extension(base_placement(args,
                                entry(args)))).height
    /\ locals.y < padTop
    /\ locals.y + shadowDy + args.text.height + padBottom = locals.height

====
